---------------------------- MODULE Spec2Model ----------------------------
(***************************************************************************)
(* The in-memory todo repository of rust-api (src/src/state.rs), its input *)
(* validation (src/src/models.rs), its error mapping (src/src/errors.rs)   *)
(* and the route handlers that call it (src/src/routes.rs).                *)
(*                                                                         *)
(* A title is a sequence of Unicode code points.  A call is made either    *)
(* through a route handler ("route") or directly on the TodoRepo trait     *)
(* object ("repo"), which AppState::repo hands out.                        *)
(***************************************************************************)
EXTENDS Naturals, Sequences, FiniteSets, TLC

\* ------------------------------------------------------------------ bounds

\* Number of concurrently running request tasks.
NumProcs == 2

\* Total number of calls made in one behaviour of Spec.
MaxCalls == 3

\* Total number of calls made in one behaviour of SpecSeq.
MaxSeqCalls == 3

\* Number of creates that get past validation in one behaviour.  next_id is
\* a u64 and `next_id += 1` overflows after 2^64 - 1 creates; the model stops
\* far below that.
MaxCreates == 2

\* Number of calls other than list made in one behaviour of SpecFair, where
\* lists are not counted.
MaxFairCalls == 2

\* --------------------------------------------------------------- constants

\* models.rs: `self.title.len() > 100`, `title.len() > 100`.
MaxTitleBytes == 100

\* ------------------------------------------------------------------- text

\* char::is_whitespace, used by str::trim: the Unicode White_Space property.
IsWhitespace(c) ==
    \/ c \in 9..13
    \/ c \in {32, 133, 160, 5760, 8232, 8233, 8239, 8287, 12288}
    \/ c \in 8192..8202

RECURSIVE TrimStart(_)
TrimStart(s) ==
    IF s # <<>> /\ IsWhitespace(Head(s)) THEN TrimStart(Tail(s)) ELSE s

RECURSIVE TrimEnd(_)
TrimEnd(s) ==
    IF s # <<>> /\ IsWhitespace(s[Len(s)])
    THEN TrimEnd(SubSeq(s, 1, Len(s) - 1))
    ELSE s

\* str::trim
Trim(s) == TrimEnd(TrimStart(s))

\* The number of bytes of a code point in UTF-8.
Utf8Len(c) ==
    IF c < 128 THEN 1 ELSE IF c < 2048 THEN 2 ELSE IF c < 65536 THEN 3 ELSE 4

\* str::len / String::len: the length in bytes, not in characters.
RECURSIVE ByteLen(_)
ByteLen(s) ==
    IF Len(s) = 0 THEN 0
    ELSE IF Len(s) = 1 THEN Utf8Len(s[1])
    ELSE LET h == Len(s) \div 2
         IN  ByteLen(SubSeq(s, 1, h)) + ByteLen(SubSeq(s, h + 1, Len(s)))

\* Option<T>
None == [some |-> FALSE]
Some(v) == [some |-> TRUE, val |-> v]

\* ----------------------------------------------------------------- errors

\* Result values of AppError and of the operations.
OkUnit == [kind |-> "OkUnit"]
OkTodo(t) == [kind |-> "Ok", todo |-> t]
OkList(ts) == [kind |-> "OkList", todos |-> ts]
NotFound == [kind |-> "NotFound"]
Validation(m) == [kind |-> "Validation", msg |-> m]
Internal == [kind |-> "Internal"]
NoRes == [kind |-> "None"]

IsErr(r) == r.kind \in {"NotFound", "Validation", "Internal"}

\* The variant's name, as #[derive(Debug)] prints it for a unit variant.
Display_debug(e) == e.kind

\* #[error(...)] of AppError: the Display text thiserror derives.
Display(e) ==
    CASE e.kind = "NotFound" -> "not found"
      [] e.kind = "Validation" -> "validation error: " \o e.msg
      [] e.kind = "Internal" -> "internal error"

\* StatusCode of each AppError variant in into_response.
StatusOf(e) ==
    CASE e.kind = "NotFound" -> 404
      [] e.kind = "Validation" -> 400
      [] e.kind = "Internal" -> 500

\* impl IntoResponse for AppError: (status, Json(ErrorBody { error: msg })).
IntoResponse(e) ==
    [status |-> StatusOf(e), body |-> [error |-> Display(e)]]

\* ------------------------------------------------------------- validation

\* CreateTodo::validate
CreateTodoValidate(title) ==
    IF Trim(title) = <<>>
    THEN Validation("title cannot be empty")
    ELSE IF ByteLen(title) > MaxTitleBytes
    THEN Validation("title cannot be longer than 100 characters")
    ELSE OkUnit

\* UpdateTodo::validate
UpdateTodoValidate(title, done) ==
    IF title.some /\ Trim(title.val) = <<>>
    THEN Validation("title cannot be empty")
    ELSE IF title.some /\ ByteLen(title.val) > MaxTitleBytes
    THEN Validation("title cannot be longer than 100 characters")
    ELSE OkUnit

\* TodoRepo::create, the check made before the write lock is requested.
RepoCreateCheck(title) ==
    IF Trim(title) = <<>>
    THEN Validation("title cannot be empty")
    ELSE OkUnit

\* An update that checks only the title it is given.
RepoUpdateCheck_noempty(title, done) ==
    IF title.some /\ Trim(title.val) = <<>>
    THEN Validation("title cannot be empty")
    ELSE OkUnit

\* An update that checks only that a field is present.
RepoUpdateCheck_noblank(title, done) ==
    IF ~title.some /\ ~done.some
    THEN Validation("provide at least one field to update")
    ELSE OkUnit

\* TodoRepo::update, the checks made before the write lock is requested.
RepoUpdateCheck(title, done) ==
    IF title.some /\ Trim(title.val) = <<>>
    THEN Validation("title cannot be empty")
    ELSE IF ~title.some /\ ~done.some
    THEN Validation("provide at least one field to update")
    ELSE OkUnit

\* ----------------------------------------------------------------- inputs

Procs == 1..NumProcs

\* "a"
TitleA == <<97>>
\* " b ": valid, with leading and trailing whitespace
TitlePadded == <<32, 98, 32>>
\* "  ": whitespace only
TitleBlank == <<32, 32>>
\* 101 times "a": one byte and one character over the limit
TitleLong == [i \in 1..(MaxTitleBytes + 1) |-> 97]

Titles == {TitleA, TitlePadded, TitleBlank, TitleLong}

\* Path<u64>: ids that were, are or never will be in the store.
IdArgs == 1..(MaxCreates + 1)

TitleOpts == {None} \cup {Some(t) : t \in Titles}
DoneOpts == {None, Some(TRUE), Some(FALSE)}

\* How a call reaches the repository: through a route handler of routes.rs,
\* or directly on the Arc<dyn TodoRepo> that AppState::repo returns.
Vias == {"route", "repo"}

Call(op, id, title, done, via) ==
    [op |-> op, id |-> id, title |-> title, done |-> done, via |-> via]

NoCall == Call("none", 0, None, None, "repo")

\* Every call with arguments from the sets above.
Requests ==
    {Call("list", 0, None, None, v) : v \in Vias}
    \cup {Call("create", 0, Some(t), None, v) : t \in Titles, v \in Vias}
    \cup {Call("get", i, None, None, v) : i \in IdArgs, v \in Vias}
    \cup {Call("update", i, t, d, v) :
            i \in IdArgs, t \in TitleOpts, d \in DoneOpts, v \in Vias}
    \cup {Call("delete", i, None, None, v) : i \in IdArgs, v \in Vias}

\* The calls the concurrent tasks of Spec make: one call of each outcome of
\* each operation.
ConcRequests ==
    {Call("list", 0, None, None, "route"),
     Call("create", 0, Some(TitlePadded), None, "route"),
     Call("create", 0, Some(TitleBlank), None, "repo")}
    \cup {Call("get", i, None, None, "route") : i \in 1..MaxCreates}
    \cup {Call("update", i, Some(TitleA), Some(TRUE), "route") :
            i \in 1..MaxCreates}
    \cup {Call("update", i, None, None, "repo") : i \in 1..MaxCreates}
    \cup {Call("delete", i, None, None, "route") : i \in 1..MaxCreates}

\* The calls of SpecCancel and SpecFair, all about the first record: one
\* call of each operation, and a create and an update that validation
\* rejects.
LockRequests ==
    {Call("list", 0, None, None, "repo"),
     Call("create", 0, Some(TitlePadded), None, "repo"),
     Call("create", 0, Some(TitleBlank), None, "repo"),
     Call("get", 1, None, None, "repo"),
     Call("update", 1, Some(TitleA), Some(TRUE), "repo"),
     Call("update", 1, None, None, "repo"),
     Call("delete", 1, None, None, "repo")}

\* ------------------------------------------------------------------ state

VARIABLES
    next_id,    \* InMemory.next_id
    items,      \* InMemory.items: a function from the ids stored to records
    readers,    \* the tasks holding a read guard of the RwLock
    writers,    \* the tasks holding a write guard of the RwLock
    waitq,      \* the tasks waiting for a guard, in the order they asked
    pc,         \* where each task is in its call
    call,       \* the call each task is making: operation, arguments, entry
    vres,       \* what payload.validate() gave the route handler of the call
    res,        \* the Result the repository operation computed
    resp,       \* the HTTP response the route handler's result turned into
    ncalls,     \* calls made so far
    assigned,   \* history: the records the creates made, in insertion order
    returned,   \* history: the ids creates returned, in order of return
    deleted,    \* history: the ids deletes removed
    pristine,   \* history: ids created and neither updated nor deleted since
    snap,       \* per writer, the store as it was when it got the write guard
    floor       \* per create, the largest id returned before it was invoked

vars ==
    <<next_id, items, readers, writers, waitq, pc, call, vres, res, resp, ncalls,
      assigned, returned, deleted, pristine, snap, floor>>

store_vars == <<next_id, items>>
lock_vars == <<readers, writers, waitq>>
hist_vars == <<assigned, returned, deleted, pristine>>

NoSnap == [held |-> FALSE]
Snapshot == [held |-> TRUE, next_id |-> next_id, items |-> items]

NoResp == [status |-> 0]

\* A store whose counter starts at 1 instead of 0.
InMemoryDefault_one == [next_id |-> 1, items |-> <<>>]

\* #[derive(Default)] struct InMemory
InMemoryDefault == [next_id |-> 0, items |-> <<>>]

Todo(id, title, done) == [id |-> id, title |-> title, done |-> done]

\* ---------------------------------------------------- the store's mutations

\* The next id taken from the number of records instead of the counter.
IncrNextId_len(n) == Cardinality(DOMAIN items) + 1

\* `guard.next_id += 1`
IncrNextId(n) == n + 1

\* `Todo { id: guard.next_id, title: input.title, done: false }`
NewTodo(id, title) == Todo(id, title, FALSE)

\* A stored copy with its title trimmed, the returned one left as given.
StoredCopy_trim(todo) == [todo EXCEPT !.title = Trim(@)]

\* `todo.clone()`, the copy that goes into the map
StoredCopy(todo) == todo

\* An insert under the key after the one it is given.
InsertItem_shift(its, key, todo) ==
    [i \in DOMAIN its \cup {key + 1} |-> IF i = key + 1 THEN todo ELSE its[i]]

\* HashMap::insert
InsertItem(its, key, todo) ==
    [i \in DOMAIN its \cup {key} |-> IF i = key THEN todo ELSE its[i]]

\* A remove that empties the map.
RemoveItem_clear(its, key) == <<>>

\* A remove that reports the record but leaves it in the map.
RemoveItem_keep(its, key) == its

\* HashMap::remove
RemoveItem(its, key) == [i \in DOMAIN its \ {key} |-> its[i]]

\* `if let Some(title) = title.take() { todo.title = title; }`
SetTitle(todo, title) ==
    IF title.some THEN [todo EXCEPT !.title = title.val] ELSE todo

\* `todo.done = done.unwrap_or(false)`: an absent flag resets the record's.
SetDone_default(todo, done) ==
    [todo EXCEPT !.done = IF done.some THEN done.val ELSE FALSE]

\* `if let Some(done) = done { todo.done = done; }`
SetDone(todo, done) ==
    IF done.some THEN [todo EXCEPT !.done = done.val] ELSE todo

\* A list that leaves out the records that are done.
Values_undone(its) == {its[i] : i \in {k \in DOMAIN its : ~its[k].done}}

\* `guard.items.values().cloned().collect()`: a Vec in the map's order, which
\* is unspecified; the set of its elements.
Values(its) == {its[i] : i \in DOMAIN its}

\* ------------------------------------------------------------------ lock

\* A delete that asks for the read guard.
LockMode_delread(op) ==
    IF op \in {"list", "get", "delete"} THEN "read" ELSE "write"

\* The guard each operation asks for: `self.read()` in list and get,
\* `self.write()` in create, update and delete.
LockMode(op) == IF op \in {"list", "get"} THEN "read" ELSE "write"

\* The queue q without task p.
RECURSIVE Without(_, _)
Without(q, p) ==
    IF q = <<>> THEN <<>>
    ELSE IF Head(q) = p THEN Without(Tail(q), p)
    ELSE <<Head(q)>> \o Without(Tail(q), p)

\* A lock without a queue: any waiting task may be served.
AtHead_any(p) == TRUE

\* tokio::sync::RwLock is fair: the tasks waiting for it are served first
\* in, first out, readers and writers alike.
AtHead(p) == waitq # <<>> /\ Head(waitq) = p

\* A guard whose drop leaves the lock as it was.
Release_keep(holders, p) == holders

\* The holders of a guard once task p has dropped its own.
Release(holders, p) == holders \ {p}

\* A read guard given out whatever the lock's state.
CanRead_always == TRUE

\* RwLock::read is granted while no write guard is out.
CanRead == writers = {}

\* A write guard handed out while read guards are out.
CanWrite_overreaders == writers = {}

\* A write guard handed out whatever guards are out.
CanWrite_shared == TRUE

\* RwLock::write is granted while no guard at all is out.
CanWrite == writers = {} /\ readers = {}

\* ---------------------------------------------------------------- handlers

\* The route handler's `payload.validate()?` (create_todo, update_todo); the
\* other handlers, and a direct call, validate nothing here.
HandlerValidate(c) ==
    IF c.via # "route" THEN NoRes
    ELSE IF c.op = "create" THEN CreateTodoValidate(c.title.val)
    ELSE IF c.op = "update" THEN UpdateTodoValidate(c.title, c.done)
    ELSE NoRes

\* The repository operation's own checks, made before any lock is requested.
RepoCheck(c) ==
    IF c.op = "create" THEN RepoCreateCheck(c.title.val)
    ELSE IF c.op = "update" THEN RepoUpdateCheck(c.title, c.done)
    ELSE OkUnit

\* The success status of each route handler and its body.
SuccessResponse(c, r) ==
    CASE c.op = "list" -> [status |-> 200, body |-> r.todos]
      [] c.op = "create" -> [status |-> 201, body |-> r.todo]
      [] c.op = "get" -> [status |-> 200, body |-> r.todo]
      [] c.op = "update" -> [status |-> 200, body |-> r.todo]
      [] c.op = "delete" -> [status |-> 204]

\* What the caller of a handler receives: Result<_, AppError> into a response.
HttpResponse(c, r) ==
    IF c.via # "route" THEN NoResp
    ELSE IF IsErr(r) THEN IntoResponse(r)
    ELSE SuccessResponse(c, r)

\* Both for every call, computed once.
Early ==
    [c \in Requests |->
        LET hv == HandlerValidate(c)
        IN  [hv |-> hv, early |-> IF IsErr(hv) THEN hv ELSE RepoCheck(c)]]

MaxOf(S) == IF S = {} THEN 0 ELSE CHOOSE m \in S : \A x \in S : x <= m

Range(f) == {f[i] : i \in DOMAIN f}

\* Creates that passed validation and have not inserted yet.
CreatesPending ==
    Cardinality({p \in Procs : pc[p] \in {"wait_w", "c_incr", "c_insert"}
                               /\ call[p].op = "create"})

FirstStep(op) ==
    CASE op = "list" -> "l_read"
      [] op = "get" -> "g_read"
      [] op = "create" -> "c_incr"
      [] op = "update" -> "u_lookup"
      [] op = "delete" -> "d_remove"

\* ----------------------------------------------------------------- actions

Init ==
    /\ next_id = InMemoryDefault.next_id
    /\ items = InMemoryDefault.items
    /\ readers = {}
    /\ writers = {}
    /\ waitq = <<>>
    /\ pc = [p \in Procs |-> "idle"]
    /\ call = [p \in Procs |-> NoCall]
    /\ vres = [p \in Procs |-> NoRes]
    /\ res = [p \in Procs |-> NoRes]
    /\ resp = [p \in Procs |-> NoResp]
    /\ ncalls = 0
    /\ assigned = <<>>
    /\ returned = <<>>
    /\ deleted = {}
    /\ pristine = {}
    /\ snap = [p \in Procs |-> NoSnap]
    /\ floor = [p \in Procs |-> 0]

\* A task starts call c.  The route handler validates the payload, then the
\* repository operation makes its own checks; both are local to the task.  A
\* call that fails here has finished its body without asking for the lock.
Start(p, c) ==
    LET hv == Early[c].hv
        early == Early[c].early
    IN  /\ pc[p] \in {"idle", "done", "cancelled"}
        /\ (c.op = "create" /\ ~IsErr(early))
              => Len(assigned) + CreatesPending < MaxCreates
        /\ call' = [call EXCEPT ![p] = c]
        /\ vres' = [vres EXCEPT ![p] = hv]
        /\ res' = [res EXCEPT ![p] = IF IsErr(early) THEN early ELSE NoRes]
        /\ resp' = [resp EXCEPT ![p] = NoResp]
        /\ pc' = [pc EXCEPT ![p] =
                    IF IsErr(early) THEN "ret"
                    ELSE IF LockMode(c.op) = "read" THEN "wait_r"
                    ELSE "wait_w"]
        /\ waitq' = IF IsErr(early) THEN waitq ELSE Append(waitq, p)
        /\ floor' = [floor EXCEPT ![p] =
                       IF c.op = "create" THEN MaxOf(Range(returned)) ELSE 0]
        /\ UNCHANGED <<store_vars, readers, writers, hist_vars, snap>>

\* A call that counts against the bound on calls.
Invoke(p, c) == Start(p, c) /\ ncalls' = ncalls + 1

\* A list or get that does not: readers may keep arriving for ever.
Arrive(p, c) == LockMode(c.op) = "read" /\ Start(p, c) /\ ncalls' = ncalls

\* The caller drops the call's future while it waits for the lock (a client
\* that disconnects): the task leaves the queue.  Past `.await` on the lock
\* no operation has another await, so a call that holds a guard runs to its
\* end.
Cancel(p) ==
    /\ pc[p] \in {"wait_r", "wait_w"}
    /\ waitq' = Without(waitq, p)
    /\ pc' = [pc EXCEPT ![p] = "cancelled"]
    /\ UNCHANGED <<store_vars, readers, writers, call, vres, res, resp,
                   ncalls, hist_vars, snap, floor>>

\* `self.read().await` returns the read guard.
AcquireRead(p) ==
    /\ pc[p] = "wait_r"
    /\ AtHead(p)
    /\ CanRead
    /\ readers' = readers \cup {p}
    /\ waitq' = Without(waitq, p)
    /\ pc' = [pc EXCEPT ![p] = FirstStep(call[p].op)]
    /\ UNCHANGED <<store_vars, writers, call, vres, res, resp, ncalls,
                   hist_vars, snap, floor>>

\* `self.write().await` returns the write guard.
AcquireWrite(p) ==
    /\ pc[p] = "wait_w"
    /\ AtHead(p)
    /\ CanWrite
    /\ writers' = writers \cup {p}
    /\ waitq' = Without(waitq, p)
    /\ snap' = [snap EXCEPT ![p] = Snapshot]
    /\ pc' = [pc EXCEPT ![p] = FirstStep(call[p].op)]
    /\ UNCHANGED <<store_vars, readers, call, vres, res, resp, ncalls,
                   hist_vars, floor>>

\* list: `Ok(guard.items.values().cloned().collect())`
ListRead(p) ==
    /\ pc[p] = "l_read"
    /\ res' = [res EXCEPT ![p] = OkList(Values(items))]
    /\ pc' = [pc EXCEPT ![p] = "drop"]
    /\ UNCHANGED <<store_vars, lock_vars, call, vres, resp, ncalls,
                   hist_vars, snap, floor>>

\* get: `guard.items.get(&id).cloned().ok_or(AppError::NotFound)`
GetRead(p) ==
    /\ pc[p] = "g_read"
    /\ res' = [res EXCEPT ![p] =
                 IF call[p].id \in DOMAIN items
                 THEN OkTodo(items[call[p].id])
                 ELSE NotFound]
    /\ pc' = [pc EXCEPT ![p] = "drop"]
    /\ UNCHANGED <<store_vars, lock_vars, call, vres, resp, ncalls,
                   hist_vars, snap, floor>>

\* create: `guard.next_id += 1;`
CreateIncr(p) ==
    /\ pc[p] = "c_incr"
    /\ next_id' = IncrNextId(next_id)
    /\ pc' = [pc EXCEPT ![p] = "c_insert"]
    /\ UNCHANGED <<items, lock_vars, call, vres, res, resp, ncalls,
                   hist_vars, snap, floor>>

\* create: build the record from the counter, insert a clone, `Ok(todo)`.
CreateInsert(p) ==
    LET todo == NewTodo(next_id, call[p].title.val)
    IN  /\ pc[p] = "c_insert"
        /\ items' = InsertItem(items, todo.id, StoredCopy(todo))
        /\ res' = [res EXCEPT ![p] = OkTodo(todo)]
        /\ assigned' = Append(assigned, todo)
        /\ pristine' = pristine \cup {todo.id}
        /\ pc' = [pc EXCEPT ![p] = "drop"]
        /\ UNCHANGED <<next_id, lock_vars, call, vres, resp, ncalls,
                       returned, deleted, snap, floor>>

\* update: `guard.items.get_mut(&id).ok_or(AppError::NotFound)?`
UpdLookup(p) ==
    /\ pc[p] = "u_lookup"
    /\ IF call[p].id \in DOMAIN items
       THEN /\ pc' = [pc EXCEPT ![p] = "u_title"]
            /\ pristine' = pristine \ {call[p].id}
            /\ res' = res
       ELSE /\ pc' = [pc EXCEPT ![p] = "drop"]
            /\ pristine' = pristine
            /\ res' = [res EXCEPT ![p] = NotFound]
    /\ UNCHANGED <<store_vars, lock_vars, call, vres, resp, ncalls,
                   assigned, returned, deleted, snap, floor>>

\* update: the title is written through the &mut into the map.
UpdTitle(p) ==
    /\ pc[p] = "u_title"
    /\ call[p].id \in DOMAIN items
    /\ items' = [items EXCEPT ![call[p].id] = SetTitle(@, call[p].title)]
    /\ pc' = [pc EXCEPT ![p] = "u_done"]
    /\ UNCHANGED <<next_id, lock_vars, call, vres, res, resp, ncalls,
                   hist_vars, snap, floor>>

\* update: the done flag is written through the &mut into the map.
UpdDone(p) ==
    /\ pc[p] = "u_done"
    /\ call[p].id \in DOMAIN items
    /\ items' = [items EXCEPT ![call[p].id] = SetDone(@, call[p].done)]
    /\ pc' = [pc EXCEPT ![p] = "u_clone"]
    /\ UNCHANGED <<next_id, lock_vars, call, vres, res, resp, ncalls,
                   hist_vars, snap, floor>>

\* update: `Ok(todo.clone())`
UpdClone(p) ==
    /\ pc[p] = "u_clone"
    /\ call[p].id \in DOMAIN items
    /\ res' = [res EXCEPT ![p] = OkTodo(items[call[p].id])]
    /\ pc' = [pc EXCEPT ![p] = "drop"]
    /\ UNCHANGED <<store_vars, lock_vars, call, vres, resp, ncalls,
                   hist_vars, snap, floor>>

\* delete: `guard.items.remove(&id).map(|_| ()).ok_or(AppError::NotFound)`
DelRemove(p) ==
    /\ pc[p] = "d_remove"
    /\ IF call[p].id \in DOMAIN items
       THEN /\ items' = RemoveItem(items, call[p].id)
            /\ res' = [res EXCEPT ![p] = OkUnit]
            /\ deleted' = deleted \cup {call[p].id}
            /\ pristine' = pristine \ {call[p].id}
       ELSE /\ items' = items
            /\ res' = [res EXCEPT ![p] = NotFound]
            /\ deleted' = deleted
            /\ pristine' = pristine
    /\ pc' = [pc EXCEPT ![p] = "drop"]
    /\ UNCHANGED <<next_id, lock_vars, call, vres, resp, ncalls,
                   assigned, returned, snap, floor>>

\* The guard goes out of scope at the end of the operation's body.
DropGuard(p) ==
    /\ pc[p] = "drop"
    /\ readers' = Release(readers, p)
    /\ writers' = Release(writers, p)
    /\ UNCHANGED waitq
    /\ snap' = [snap EXCEPT ![p] = NoSnap]
    /\ pc' = [pc EXCEPT ![p] = "ret"]
    /\ UNCHANGED <<store_vars, call, vres, res, resp, ncalls, hist_vars,
                   floor>>

\* The call returns to its caller; a route handler's result becomes the
\* response.
Return(p) ==
    /\ pc[p] = "ret"
    /\ pc' = [pc EXCEPT ![p] = "done"]
    /\ resp' = [resp EXCEPT ![p] = HttpResponse(call[p], res[p])]
    /\ returned' = IF call[p].op = "create" /\ res[p].kind = "Ok"
                   THEN Append(returned, res[p].todo.id)
                   ELSE returned
    /\ UNCHANGED <<store_vars, lock_vars, call, vres, res, ncalls,
                   assigned, deleted, pristine, snap, floor>>

\* What a task does once its call is made.
Step(p) ==
        \/ AcquireRead(p)
        \/ AcquireWrite(p)
        \/ ListRead(p)
        \/ GetRead(p)
        \/ CreateIncr(p)
        \/ CreateInsert(p)
        \/ UpdLookup(p)
        \/ UpdTitle(p)
        \/ UpdDone(p)
        \/ UpdClone(p)
        \/ DelRemove(p)
        \/ DropGuard(p)
        \/ Return(p)

\* NumProcs tasks make MaxCalls calls between them, concurrently.
Next ==
    \E p \in Procs :
        \/ ncalls < MaxCalls /\ \E c \in ConcRequests : Invoke(p, c)
        \/ Step(p)

Spec == Init /\ [][Next]_vars

\* Concurrent tasks whose calls may be cancelled while they wait for the
\* lock.
NextCancel ==
    \E p \in Procs :
        \/ ncalls < MaxCalls /\ \E c \in LockRequests : Invoke(p, c)
        \/ Step(p)
        \/ Cancel(p)

SpecCancel == Init /\ [][NextCancel]_vars

\* Concurrent tasks with a bounded number of creates, updates, deletes and
\* gets, and lists that keep arriving.  The runtime polls every task that
\* can run: each task's steps are weakly fair; no call has to be made.
NextFair ==
    \E p \in Procs :
        \/ /\ ncalls < MaxFairCalls
           /\ \E c \in LockRequests :
                  /\ c.op # "list"
                  /\ ~IsErr(Early[c].early)
                  /\ Invoke(p, c)
        \/ \E c \in LockRequests : c.op = "list" /\ Arrive(p, c)
        \/ Step(p)

SpecFair ==
    Init /\ [][NextFair]_vars /\ \A p \in Procs : WF_vars(Step(p))

\* One task makes MaxSeqCalls calls, one after the other, with every
\* argument of Requests.
NextSeq ==
    \/ ncalls < MaxSeqCalls /\ \E c \in Requests : Invoke(1, c)
    \/ Step(1)

SpecSeq == Init /\ [][NextSeq]_vars

\* The store behind one mutex: the whole of call c, checks and body, run
\* on the store st with no step of another call in between; the store it
\* leaves and the result it returns.
SeqApply(c, st) ==
    LET early == Early[c].early
        id == c.id
    IN  IF IsErr(early) THEN [st |-> st, res |-> early]
        ELSE CASE c.op = "list" ->
                    [st |-> st, res |-> OkList(Values(st.items))]
               [] c.op = "get" ->
                    [st |-> st,
                     res |-> IF id \in DOMAIN st.items
                             THEN OkTodo(st.items[id])
                             ELSE NotFound]
               [] c.op = "create" ->
                    LET n == IncrNextId(st.next_id)
                        todo == NewTodo(n, c.title.val)
                    IN  [st |-> [next_id |-> n,
                                 items |-> InsertItem(st.items, todo.id,
                                                      StoredCopy(todo))],
                         res |-> OkTodo(todo)]
               [] c.op = "update" ->
                    IF id \in DOMAIN st.items
                    THEN LET todo == SetDone(SetTitle(st.items[id], c.title),
                                             c.done)
                         IN  [st |-> [st EXCEPT !.items[id] = todo],
                              res |-> OkTodo(todo)]
                    ELSE [st |-> st, res |-> NotFound]
               [] c.op = "delete" ->
                    IF id \in DOMAIN st.items
                    THEN [st |-> [st EXCEPT
                                    !.items = RemoveItem(st.items, id)],
                          res |-> OkUnit]
                    ELSE [st |-> st, res |-> NotFound]

\* The store as the callers can know it: the one the writer at work locked,
\* until that writer drops its guard.
Committed ==
    IF writers = {}
    THEN [next_id |-> next_id, items |-> items]
    ELSE LET w == CHOOSE p \in writers : TRUE
         IN  [next_id |-> snap[w].next_id, items |-> snap[w].items]

\* ------------------------------------------------------------------ claims

\* Task p's call is a create that produced a record.
CreateOk(p) == call[p].op = "create" /\ res[p].kind = "Ok"

\* The record create returned for id.
CreatedAs(id) == CHOOSE t \in Range(assigned) : t.id = id

\* C1: the ids that concurrent creates return are pairwise distinct, and
\* between a create's taking the write guard and its insert nothing but its
\* own increment has touched the store: increment and insert are one atomic
\* unit for every other writer.
C1_CreateIdsDistinct ==
    /\ \A i, j \in 1..Len(returned) : i # j => returned[i] # returned[j]
    /\ \A p, q \in Procs :
          (p # q /\ CreateOk(p) /\ CreateOk(q))
              => res[p].todo.id # res[q].todo.id
    /\ \A p \in Procs :
          (CreateOk(p) /\ pc[p] \in {"drop", "ret"})
              => \A i \in 1..Len(returned) : returned[i] # res[p].todo.id
    /\ \A p \in Procs :
          pc[p] = "c_insert"
              => /\ next_id = snap[p].next_id + 1
                 /\ items = snap[p].items
    /\ \A p \in Procs :
          (pc[p] = "drop" /\ CreateOk(p))
              => /\ next_id = snap[p].next_id + 1
                 /\ items = InsertItem(snap[p].items, next_id, res[p].todo)

\* Two creates that ran at the same time (the second was invoked before the
\* first returned) and both produced a record.
C1_Witness ==
    \E p, q \in Procs :
        /\ p # q
        /\ CreateOk(p) /\ pc[p] = "done"
        /\ CreateOk(q) /\ pc[q] = "ret" /\ floor[q] = 0

\* C2: next_id never decreases from one state to the next, and the id a
\* create assigns was never assigned before, deleted or not.
C2_NextIdMonotoneNoReuse ==
    [][/\ next_id' >= next_id
       /\ assigned' # assigned
            => \A i \in 1..Len(assigned) :
                   assigned[i].id # assigned'[Len(assigned')].id]_vars

\* A record was created and deleted, and a later create has assigned an id.
C2_Witness ==
    /\ Len(assigned) = 2
    /\ assigned[1].id \in deleted
    /\ assigned[2].id \in DOMAIN items

\* C3 as claimed: the ids creates return, in the order of their return, are
\* non-decreasing.
C3_CompletionOrder ==
    \A i, j \in 1..Len(returned) : i < j => returned[i] <= returned[j]

\* C3 as amended: the ids creates assign, in the order in which the creates
\* hold the write lock, are strictly increasing, and a create invoked after
\* another create has returned gets a larger id than that one.
C3_LockOrder ==
    /\ \A i, j \in 1..Len(assigned) : i < j => assigned[i].id < assigned[j].id
    /\ \A p \in Procs : CreateOk(p) => res[p].todo.id > floor[p]

\* A create invoked after another create had returned has returned too.
C3_Witness ==
    \E p \in Procs : CreateOk(p) /\ pc[p] = "done" /\ floor[p] >= 1

\* C4: the n-th create that gets past validation returns id n, done = false
\* and the title it was given; a create that validation rejects, and every
\* other operation, consumes no id.
C4_NthCreateGetsN ==
    /\ \A i \in 1..Len(assigned) : assigned[i].id = i /\ ~assigned[i].done
    /\ next_id = Len(assigned) + Cardinality({p \in Procs : pc[p] = "c_insert"})
    /\ \A p \in Procs :
          CreateOk(p)
              => /\ res[p].todo.title = call[p].title.val
                 /\ res[p].todo.done = FALSE
                 /\ res[p].todo.id \in 1..Len(assigned)
                 /\ assigned[res[p].todo.id] = res[p].todo

\* The second create has returned id 2 while another create of the run was
\* rejected by validation.
C4_Witness ==
    \E p, q \in Procs :
        /\ CreateOk(p) /\ pc[p] = "done" /\ res[p].todo.id = 2
        /\ call[q].op = "create" /\ res[q].kind = "Validation"

\* C5: once a delete has removed id, every get, update and delete of id that
\* reads the store afterwards fails with NotFound, no list contains id, and
\* id never comes back into the store.
C5_GoneAfterDelete ==
    [][/\ \A id \in deleted : id \notin DOMAIN items'
       /\ \A p \in Procs :
            /\ (pc[p] \in {"g_read", "d_remove"} /\ pc'[p] = "drop"
                    /\ call[p].id \in deleted)
                  => res'[p] = NotFound
            /\ (pc[p] = "u_lookup" /\ pc'[p] # "u_lookup"
                    /\ call[p].id \in deleted)
                  => pc'[p] = "drop" /\ res'[p] = NotFound
            /\ (pc[p] = "l_read" /\ pc'[p] = "drop")
                  => \A t \in res'[p].todos : t.id \notin deleted]_vars

\* A get of a deleted id has failed with NotFound.
C5_Witness ==
    \E p \in Procs :
        /\ pc[p] = "drop" /\ call[p].op = "get"
        /\ call[p].id \in deleted
        /\ res[p] = NotFound

\* C6: a get of an id that was created and neither updated nor deleted since
\* returns the record the create returned.
C6_GetAfterCreate ==
    \A p \in Procs :
        (pc[p] = "drop" /\ call[p].op = "get" /\ call[p].id \in pristine)
            => res[p] = OkTodo(CreatedAs(call[p].id))

\* A get has read a record that no update or delete has touched.
C6_Witness ==
    \E p \in Procs :
        /\ pc[p] = "drop" /\ call[p].op = "get"
        /\ call[p].id \in pristine
        /\ res[p].kind = "Ok"

\* C7: when an update has succeeded, the record has its old id, the title
\* and the done flag of the input where present and its old ones where
\* absent; every other record and next_id are as they were when the update
\* took the lock; and the record returned is the record stored.
C7_UpdateFrame ==
    \A p \in Procs :
        (pc[p] = "drop" /\ call[p].op = "update" /\ res[p].kind = "Ok")
            => LET id == call[p].id
                   old == snap[p].items[id]
               IN  /\ DOMAIN items = DOMAIN snap[p].items
                   /\ \A i \in DOMAIN items \ {id} : items[i] = snap[p].items[i]
                   /\ next_id = snap[p].next_id
                   /\ items[id].id = old.id
                   /\ items[id].title =
                         IF call[p].title.some
                         THEN call[p].title.val ELSE old.title
                   /\ items[id].done =
                         IF call[p].done.some
                         THEN call[p].done.val ELSE old.done
                   /\ res[p].todo = items[id]

\* An update without a done flag of a record whose flag was set, beside
\* another record.
C7_Witness ==
    \E p \in Procs :
        /\ pc[p] = "drop" /\ call[p].op = "update" /\ res[p].kind = "Ok"
        /\ call[p].title.some /\ ~call[p].done.some
        /\ items[call[p].id].done

\* C8 as claimed: a Validation(message) error reaches the caller of a route
\* as status 400 with the body {"error": message}, the message verbatim.
C8_ValidationVerbatim ==
    \A p \in Procs :
        (pc[p] = "done" /\ call[p].via = "route" /\ res[p].kind = "Validation")
            => resp[p] = [status |-> 400, body |-> [error |-> res[p].msg]]

\* C9 as claimed: UpdateTodo::validate fails with "provide at least one field
\* to update" for every payload without title and done, and succeeds only
\* for a payload with a field whose title, if present, is neither blank nor
\* too long.
C9_UpdateValidateRejectsEmpty ==
    \A p \in Procs :
        (call[p].op = "update" /\ call[p].via = "route")
            => LET t == call[p].title
                   d == call[p].done
               IN  /\ (~t.some /\ ~d.some)
                        => vres[p] =
                             Validation("provide at least one field to update")
                   /\ vres[p] = OkUnit
                        => /\ t.some \/ d.some
                           /\ t.some => /\ Trim(t.val) # <<>>
                                        /\ Len(t.val) <= MaxTitleBytes

\* C10 as claimed: a create or an update made directly on the repository
\* with a title longer than 100 characters fails with a Validation error, and
\* no stored title is longer than 100 characters.
C10_RepoRejectsLongTitle ==
    /\ \A i \in DOMAIN items : Len(items[i].title) <= MaxTitleBytes
    /\ \A p \in Procs :
          (/\ call[p].via = "repo"
           /\ call[p].op \in {"create", "update"}
           /\ call[p].title.some
           /\ Len(call[p].title.val) > MaxTitleBytes
           /\ pc[p] = "done")
              => res[p].kind = "Validation"

\* C17: while lists keep arriving, every create, update and delete
\* that waits for the write lock acquires it and returns, and so does every
\* waiting list and get: no writer starves and no call is stuck for ever.
C17_WaitingCallsReturn ==
    \A p \in Procs :
        (pc[p] \in {"wait_r", "wait_w"}) ~> (pc[p] = "done")

\* A writer waits while a list holds the read lock in a store that has a
\* record.
C17_Witness ==
    \E p, q \in Procs :
        /\ pc[p] = "wait_w"
        /\ q \in readers
        /\ call[q].op = "list"
        /\ items # InMemoryDefault.items

C12_NotFoundIffAbsent ==
    \A p \in Procs :
        /\ (pc[p] = "drop" /\ call[p].op = "get")
              => (res[p] = NotFound <=> call[p].id \notin DOMAIN items)
        /\ (pc[p] = "drop" /\ call[p].op \in {"update", "delete"})
              => /\ p \in writers
                 /\ res[p] = NotFound
                       <=> call[p].id \notin DOMAIN snap[p].items
        /\ (pc[p] = "done" /\ call[p].via = "route" /\ res[p] = NotFound)
              => resp[p] = [status |-> 404, body |-> [error |-> "not found"]]

\* A get on a store in which nothing was ever created has been answered
\* with 404.
C12_Witness ==
    \E p \in Procs :
        /\ pc[p] = "done"
        /\ call[p].op = "get"
        /\ call[p].via = "route"
        /\ assigned = <<>>
        /\ resp[p].status = 404

\* The records an update of id that sets both title and done leaves.
UpdatedBoth(id) ==
    {Todo(id, c.title.val, c.done.val) :
        c \in {u \in ConcRequests : /\ u.op = "update"
                                    /\ u.id = id
                                    /\ u.title.some
                                    /\ u.done.some}}

\* A record as an update that sets both fields found it or left it.
Untorn(t) == t = CreatedAs(t.id) \/ t \in UpdatedBoth(t.id)

\* C13: a record that a get or a list returns while updates that set both
\* title and done run concurrently is never torn: it has the title and the
\* flag it was created with, or the title and the flag of the update.
C13_NoTornRead ==
    \A p \in Procs :
        /\ (call[p].op = "get" /\ res[p].kind = "Ok") => Untorn(res[p].todo)
        /\ (call[p].op = "list" /\ res[p].kind = "OkList")
              => \A t \in res[p].todos : Untorn(t)

\* A get has read a record while an update of that record's title and flag
\* waits for the lock.
C13_Witness ==
    \E p, q \in Procs :
        /\ pc[p] = "drop"
        /\ call[p].op = "get"
        /\ res[p].kind = "Ok"
        /\ pc[q] = "wait_w"
        /\ call[q].op = "update"
        /\ call[q].id = call[p].id
        /\ call[q].title.some
        /\ call[q].done.some

\* C15: a list never fails; what it returns is exactly the set of records
\* in the store at the instant it reads, which lies between its invocation
\* and its return and at which no writer is at work: until the list drops
\* its guard the store is still the one it read.
C15_ListSnapshot ==
    \A p \in Procs :
        call[p].op = "list"
            => /\ ~IsErr(res[p])
               /\ pc[p] \in {"drop", "ret", "done"} => res[p].kind = "OkList"
               /\ pc[p] = "drop"
                     => /\ writers = {}
                        /\ res[p].todos = {items[i] : i \in DOMAIN items}

\* A list has read a store that holds a record while a writer waits for the
\* lock.
C15_Witness ==
    \E p, q \in Procs :
        /\ pc[p] = "drop"
        /\ call[p].op = "list"
        /\ res[p].todos # {}
        /\ pc[q] = "wait_w"

\* C18: only lists and gets hold the read guard and they work on the store
\* under it; only creates, updates and deletes hold the write guard and
\* they work on the store under it; while a write guard is out there is no
\* other guard, of either kind.
C18_ReadersShareWritersExclude ==
    /\ \A p \in readers : call[p].op \in {"list", "get"}
    /\ \A p \in writers : call[p].op \in {"create", "update", "delete"}
    /\ \A p \in Procs :
          /\ pc[p] \in {"l_read", "g_read"} => p \in readers
          /\ pc[p] \in {"c_incr", "c_insert", "u_lookup", "u_title", "u_done",
                        "u_clone", "d_remove"} => p \in writers
          /\ (pc[p] = "drop" /\ call[p].op \in {"list", "get"})
                => p \in readers
          /\ (pc[p] = "drop" /\ call[p].op \in {"create", "update", "delete"})
                => p \in writers
    /\ writers # {} => (Cardinality(writers) = 1 /\ readers = {})

\* A list and a get hold the read guard at the same time.
C18_Witness ==
    \E p, q \in Procs :
        /\ p \in readers /\ call[p].op = "list"
        /\ q \in readers /\ call[q].op = "get"

\* C19: a create or an update that fails with Validation has gone straight
\* to its return: it is not in the lock's queue, holds no guard and never
\* held one; and an update without title and done fails with Validation
\* from its first step, whether or not its id is in the store.
C19_ValidationBeforeLock ==
    \A p \in Procs :
        /\ res[p].kind = "Validation"
              => /\ call[p].op \in {"create", "update"}
                 /\ pc[p] \in {"ret", "done"}
                 /\ p \notin readers \cup writers
                 /\ p \notin Range(waitq)
                 /\ snap[p] = NoSnap
        /\ (call[p].op = "update" /\ ~call[p].title.some /\ ~call[p].done.some)
              => /\ pc[p] \in {"ret", "done"}
                 /\ res[p].kind = "Validation"

\* An update without fields of an id that is not in the store is about to
\* return Validation while another task holds the write guard.
C19_Witness ==
    \E p, q \in Procs :
        /\ pc[p] = "ret"
        /\ call[p].op = "update"
        /\ call[p].id \notin DOMAIN items
        /\ res[p].kind = "Validation"
        /\ q \in writers

\* A call that is not in progress, or has left the operation's body.
Exited(p) == pc[p] \in {"idle", "ret", "done", "cancelled"}

\* C16: a call that has left its operation, by success, Validation,
\* NotFound or because its caller dropped it, holds no guard and is not in
\* the lock's queue; a call that waits holds no guard; and when no call is
\* in progress the lock is free and nobody waits for it.
C16_NoGuardAfterExit ==
    /\ \A p \in Procs :
          /\ Exited(p) => /\ p \notin readers \cup writers
                          /\ p \notin Range(waitq)
          /\ pc[p] \in {"wait_r", "wait_w"} => p \notin readers \cup writers
    /\ (\A p \in Procs : Exited(p))
          => (readers = {} /\ writers = {} /\ waitq = <<>>)

\* One call was dropped while it waited, another has returned NotFound,
\* and the lock is free.
C16_Witness ==
    \E p, q \in Procs :
        /\ pc[p] = "cancelled"
        /\ pc[q] = "done"
        /\ res[q] = NotFound
        /\ readers = {}
        /\ writers = {}

\* C20: no step of a list or a get changes the store; a step after which a
\* call's result is an error changes neither the records nor next_id, and
\* a writer that fails leaves the store as it locked it; the step of a
\* delete that succeeds removes the record with its id and leaves every
\* other record and next_id as they were.
C20_ErrorsAndReadsChangeNothing ==
    [][\A p \in Procs :
          pc'[p] # pc[p]
            => /\ call'[p].op \in {"list", "get"}
                     => <<next_id, items>>' = <<next_id, items>>
               /\ IsErr(res'[p]) => <<next_id, items>>' = <<next_id, items>>
               /\ (IsErr(res'[p]) /\ snap[p] # NoSnap)
                     => /\ next_id' = snap[p].next_id
                        /\ items' = snap[p].items
               /\ (pc[p] = "d_remove" /\ res'[p] = OkUnit)
                     => /\ call[p].id \in DOMAIN items
                        /\ DOMAIN items' = DOMAIN items \ {call[p].id}
                        /\ \A i \in DOMAIN items' : items'[i] = items[i]
                        /\ next_id' = next_id]_vars

\* A delete has removed its record from a store that holds another one.
C20_Witness ==
    \E p \in Procs :
        /\ pc[p] = "drop"
        /\ call[p].op = "delete"
        /\ res[p] = OkUnit
        /\ items # InMemoryDefault.items

\* C14: every call takes effect at one instant between its invocation and
\* its return, as the same call does on the store behind one mutex: a call
\* that validation rejects when it is made, a list or a get when it reads,
\* a create, an update or a delete when it drops its guard.  At that
\* instant its result is the mutex store's result and the store the callers
\* can know becomes the mutex store's; no other step changes that store,
\* and a result is not changed after it.
C14_LinearizableAsMutexStore ==
    [][\A p \in Procs :
          pc'[p] # pc[p]
            => LET seq == SeqApply(call'[p], Committed)
               IN  CASE pc'[p] = "ret" /\ pc[p] # "drop" ->
                          /\ res'[p] = seq.res
                          /\ Committed' = seq.st
                          /\ seq.st = Committed
                     [] pc[p] \in {"l_read", "g_read"} ->
                          /\ res'[p] = seq.res
                          /\ Committed' = seq.st
                          /\ seq.st = Committed
                     [] pc[p] = "drop" /\ p \in writers ->
                          /\ res[p] = seq.res
                          /\ res'[p] = res[p]
                          /\ Committed' = seq.st
                     [] OTHER ->
                          /\ Committed' = Committed
                          /\ pc[p] \in {"drop", "ret"} => res'[p] = res[p]
      ]_vars

\* An update has written its record and still holds its guard while a get of
\* the same record, made meanwhile, waits.
C14_Witness ==
    \E p, q \in Procs :
        /\ pc[p] = "drop"
        /\ p \in writers
        /\ call[p].op = "update"
        /\ res[p].kind = "Ok"
        /\ pc[q] = "wait_r"
        /\ call[q].op = "get"
        /\ call[q].id = call[p].id

\* C21: in every state of the store, each record is stored under the key
\* equal to its own id, and every stored id lies in 1..next_id.
C21_KeyIsIdWithinCounter ==
    \A k \in DOMAIN items :
        /\ items[k].id = k
        /\ 1 <= k
        /\ k <= next_id

\* With no writer at work, the store holds a record that was created after
\* one that has since been deleted.
C21_Witness ==
    /\ writers = {}
    /\ \E k \in DOMAIN items :
          /\ k - 1 \in deleted
          /\ k - 1 \notin DOMAIN items

=============================================================================
